---- MODULE Spec2Model ----
(***************************************************************************)
(* gefran_pid: the Pid session of src/gefran_pid/pid.py as a state         *)
(* machine.  Process 0 is the caller's thread, processes 1..MaxThreads are *)
(* the background threads that Runnable.start() creates to execute         *)
(* Pid.run.  Every modbus.execute() call is one atomic step (modbus_tk     *)
(* serialises single calls), so the steps of two threads interleave        *)
(* between the register operations of one read or write.                   *)
(*                                                                         *)
(* Physical values (Python floats) are fixed-point integers in units of    *)
(* 10^-MaxDecp degrees, which represents raw / 10^d exactly for every      *)
(* scale d in 0..MaxDecp.  Times are in ticks, TicksPerSecond to a second. *)
(***************************************************************************)
EXTENDS Integers, Sequences, FiniteSets, TLC

\* ------------------------------------------------------------- bounds
MaxDecp == 1
MaxRows == 3
MaxCmds == 2
MaxThreads == 2
MaxPolling == 1
MaxHooks == 2
TicksPerSecond == 2
MaxOvershoot == 1
MaxN == 2
MaxTemps == 3

\* ------------------------------------------------- program constants
ADDRESS_PV == 0
ADDRESS_SP == 55
ADDRESS_DECP == 136
SecondsPerDay == 86400

\* ------------------------------------------------------------ helpers
RECURSIVE Pow10(_)
Pow10(k) == IF k <= 0 THEN 1 ELSE 10 * Pow10(k - 1)

Abs(x) == IF x < 0 THEN -x ELSE x

\* m * 10^-e degrees as a fixed-point physical value
Phys(m, e) == m * Pow10(MaxDecp - e)

\* Python's round(): to the nearest integer, ties to the even one; num/den >= 0
RoundHalfEven(num, den) ==
    LET q == num \div den
        r == num % den
    IN  IF 2 * r < den THEN q
        ELSE IF 2 * r > den THEN q + 1
        ELSE IF q % 2 = 0 THEN q ELSE q + 1

\* a conversion that ignores the scale it is given
ToPhysicalUnscaled(raw, d) == raw * Pow10(MaxDecp)

\* raw / (10 ** raw_decp)
ToPhysical(raw, d) == raw * Pow10(MaxDecp - d)

\* a rounding of the value itself, not of value * 10^d
ToRawUnscaled(value, d) == RoundHalfEven(value, Pow10(MaxDecp))

\* round(value * (10 ** raw_decp))
ToRaw(value, d) == RoundHalfEven(value * Pow10(d), Pow10(MaxDecp))

\* -------------------------------------------------------------- state
VARIABLES
    decp,           \* device: the decimal-point register (ADDRESS_DECP)
    rawSP,          \* device: the setpoint register (ADDRESS_SP)
    modbus,         \* self.modbus: "None", "open" or "closed"
    hooks,          \* atexit registrations of self.disconnect
    running,        \* Runnable.running
    thread,         \* Runnable.thread: 0 is None, else the latest thread
    late,           \* per thread: rows it appended with the flag cleared,
                    \* since the latest start()
    log_interval,   \* self.log_interval (s)
    save_interval,  \* self.save_interval (s)
    save_log,       \* self.save_log
    temp_data,      \* self.temp_data.data, one record per row
    temp_saved,     \* rows of temp_data in the csv file
    command_data,   \* self.command_data.data
    cmd_saved,      \* rows of command_data in the csv file
    pc,             \* each process's position
    ctx,            \* who called the read a process is in
    raw_decp,       \* each process's local raw_decp
    pv,             \* get_temp_data's local pv
    sp,             \* the setpoint a process has just read
    bus,            \* each process's latest scale read and value transfer
    op,             \* the operation the caller is in
    arg,            \* write_setpoint's value
    ret,            \* what the caller's operation returned
    err,            \* the exception that ended a process's operation
    w,              \* wait_until_stable's arguments
    was_logging,    \* was_logging: the polling ran when the operation began
    elapsed,        \* ticks since wait_until_stable's start_time
    last_n,         \* wait_until_stable's local last_n_temperatures
    samples,        \* samples wait_until_stable has taken in this call
    last_append,    \* the latest register_state: its row count, save, caller
    env,            \* the inputs of this run: temperatures, setpoints, waits,
                    \* and the number of threads it may create
    probe           \* a pure function's inputs and results, when one is run

deviceVars == <<decp, rawSP, modbus, hooks>>
configVars == <<log_interval, save_interval, save_log, env, probe>>
runVars == <<running, thread, late>>
storeVars == <<temp_data, temp_saved, last_append>>
cmdVars == <<command_data, cmd_saved>>
procVars == <<pc, ctx, raw_decp, pv, sp, bus>>
callVars == <<op, arg, ret, err>>
waitVars == <<w, was_logging, elapsed, last_n, samples>>
vars == <<deviceVars, configVars, runVars, storeVars, cmdVars, procVars,
          callVars, waitVars>>

Procs == 0 .. MaxThreads
Threads == 1 .. MaxThreads

\* the configurations: log_interval, save_interval, save_log
Configs == {<<5, 10, TRUE>>, <<5, 3, TRUE>>, <<5, 10, FALSE>>}

\* the device holds a temperature as round(temperature * 10^decp)
DeviceRaw(temp, d) ==
    (temp * Pow10(d) + (Pow10(MaxDecp) \div 2)) \div Pow10(MaxDecp)

None == "None"
RetNone == <<"None", 0>>
RetFloat(v) == <<"float", v>>
RetBool(b) == <<"bool", IF b THEN 1 ELSE 0>>
NoBus == [decp |-> -1, addr |-> -1, val |-> -1]
NoWait == [n |-> 0, tolerance |-> 0, timeout |-> -1, custom |-> FALSE,
           kargs |-> FALSE]
NoProbe == [kind |-> "none"]
NoAppend == [nrows |-> 0, saved |-> FALSE, by |-> 0]

\* Pid.__init__ up to its call of self.connect()
SessionWith(configs) ==
    /\ decp \in 0 .. MaxDecp
    /\ rawSP = DeviceRaw(Phys(2000, 1), decp)
    /\ modbus = None
    /\ hooks = 0
    /\ running = FALSE
    /\ thread = 0
    /\ late = [t \in Threads |-> 0]
    /\ \E c \in configs :
          /\ log_interval = c[1]
          /\ save_interval = c[2]
          /\ save_log = c[3]
    /\ temp_data = <<>>
    /\ temp_saved = 0
    /\ command_data = <<>>
    /\ cmd_saved = 0
    /\ pc = [p \in Procs |-> IF p = 0 THEN "new" ELSE "none"]
    /\ ctx = [p \in Procs |-> "none"]
    /\ raw_decp = [p \in Procs |-> -1]
    /\ pv = [p \in Procs |-> -1]
    /\ sp = [p \in Procs |-> -1]
    /\ bus = [p \in Procs |-> NoBus]
    /\ op = "__init__"
    /\ arg = -1
    /\ ret = RetNone
    /\ err = [p \in Procs |-> None]
    /\ w = NoWait
    /\ was_logging = FALSE
    /\ elapsed = 0
    /\ last_n = <<>>
    /\ samples = 0
    /\ last_append = NoAppend

Session == SessionWith(Configs)

\* ------------------------------------------------- exceptions, transport
\* an exception that is recorded and the sample started again
RaiseAndRetry(p, e) ==
    /\ pc' = [pc EXCEPT ![p] = "rpv1"]
    /\ err' = [err EXCEPT ![p] = e]
    /\ ctx' = ctx
    /\ raw_decp' = [raw_decp EXCEPT ![p] = -1]
    /\ pv' = [pv EXCEPT ![p] = -1]
    /\ sp' = [sp EXCEPT ![p] = -1]
    /\ bus' = [bus EXCEPT ![p] = NoBus]

\* an exception leaves every frame of the process: the caller's operation
\* ends with it, a background thread dies with it
Raise(p, e) ==
    /\ pc' = [pc EXCEPT ![p] = IF p = 0 THEN "ret" ELSE "none"]
    /\ err' = [err EXCEPT ![p] = e]
    /\ ctx' = [ctx EXCEPT ![p] = "none"]
    /\ raw_decp' = [raw_decp EXCEPT ![p] = -1]
    /\ pv' = [pv EXCEPT ![p] = -1]
    /\ sp' = [sp EXCEPT ![p] = -1]
    /\ bus' = [bus EXCEPT ![p] = NoBus]

\* a failure after which the caller's wait sets the polling flag again
ExecuteFailsRestoring(p) ==
    /\ Raise(p, "TransportError")
    /\ running' = (running \/ (p = 0 /\ was_logging))
    /\ UNCHANGED <<deviceVars, configVars, thread, late, storeVars, cmdVars,
                   op, arg, ret, waitVars>>

\* modbus.execute() raised (timeout, malformed response, port unusable)
ExecuteFails(p) ==
    /\ Raise(p, "TransportError")
    /\ UNCHANGED <<deviceVars, configVars, runVars, storeVars, cmdVars,
                   op, arg, ret, waitVars>>

\* a command that is not recorded
RegisterNothing(cmds, text, value) == cmds

\* self.command_data.add_data(...), and save_csv() when save_log is True
RegisterCommand(cmds, text, value) ==
    Append(cmds, [text |-> text, value |-> value])

SavedCommands(cmds) == IF save_log THEN Len(cmds) ELSE cmd_saved

\* ------------------------------------------------------ the three accessors
\* line 237: raw_decp = execute(READ_INPUT_REGISTERS, ADDRESS_DECP)
read_process_value_decp(p) ==
    /\ pc[p] = "rpv1"
    /\ \/ /\ raw_decp' = [raw_decp EXCEPT ![p] = decp]
          /\ bus' = [bus EXCEPT ![p] = [decp |-> decp, addr |-> -1, val |-> -1]]
          /\ pc' = [pc EXCEPT ![p] = "rpv2"]
          /\ modbus' = "open"
          /\ UNCHANGED <<decp, rawSP, hooks, configVars, runVars, storeVars,
                         cmdVars, ctx, pv, sp, callVars, waitVars>>
       \/ ExecuteFails(p)

\* lines 238-239: raw_pv = execute(READ_INPUT_REGISTERS, ADDRESS_PV);
\* return raw_pv / (10 ** raw_decp)
read_process_value_pv(p) ==
    /\ pc[p] = "rpv2"
    /\ \/ \E temp \in env.temps :
            LET raw_pv == DeviceRaw(temp, decp)
                value == ToPhysical(raw_pv, raw_decp[p]) IN
            /\ bus' = [bus EXCEPT ![p].addr = ADDRESS_PV, ![p].val = raw_pv]
            /\ modbus' = "open"
            /\ IF ctx[p] = "call"
               THEN /\ ret' = RetFloat(value)
                    /\ pc' = [pc EXCEPT ![p] = "ret"]
                    /\ pv' = pv
               ELSE /\ pv' = [pv EXCEPT ![p] = value]
                    /\ pc' = [pc EXCEPT ![p] = "rs1"]
                    /\ ret' = ret
            /\ UNCHANGED <<decp, rawSP, hooks, configVars, runVars, storeVars,
                           cmdVars, ctx, raw_decp, sp, op, arg, err, waitVars>>
       \/ ExecuteFails(p)

\* line 225: raw_decp = execute(READ_INPUT_REGISTERS, ADDRESS_DECP)
read_setpoint_decp(p) ==
    /\ pc[p] = "rs1"
    /\ \/ /\ raw_decp' = [raw_decp EXCEPT ![p] = decp]
          /\ bus' = [bus EXCEPT ![p] = [decp |-> decp, addr |-> -1, val |-> -1]]
          /\ pc' = [pc EXCEPT ![p] = "rs2"]
          /\ modbus' = "open"
          /\ UNCHANGED <<decp, rawSP, hooks, configVars, runVars, storeVars,
                         cmdVars, ctx, pv, sp, callVars, waitVars>>
       \/ ExecuteFails(p)

\* lines 226-227: raw_sp = execute(READ_INPUT_REGISTERS, ADDRESS_SP);
\* return raw_sp / (10 ** raw_decp)
read_setpoint_sp(p) ==
    /\ pc[p] = "rs2"
    /\ \/ LET value == ToPhysical(rawSP, raw_decp[p]) IN
          /\ bus' = [bus EXCEPT ![p].addr = ADDRESS_SP, ![p].val = rawSP]
          /\ modbus' = "open"
          /\ IF ctx[p] = "call"
             THEN /\ ret' = RetFloat(value)
                  /\ pc' = [pc EXCEPT ![p] = "ret"]
                  /\ sp' = sp
             ELSE /\ sp' = [sp EXCEPT ![p] = value]
                  /\ pc' = [pc EXCEPT ![p] =
                              IF ctx[p] = "sample" THEN "reg" ELSE "w_stable"]
                  /\ ret' = ret
          /\ UNCHANGED <<decp, rawSP, hooks, configVars, runVars, storeVars,
                         cmdVars, ctx, raw_decp, pv, op, arg, err, waitVars>>
       \/ ExecuteFails(p)

\* line 230: raw_decp = execute(READ_INPUT_REGISTERS, ADDRESS_DECP)
write_setpoint_decp ==
    /\ pc[0] = "ws1"
    /\ \/ /\ raw_decp' = [raw_decp EXCEPT ![0] = decp]
          /\ bus' = [bus EXCEPT ![0] = [decp |-> decp, addr |-> -1, val |-> -1]]
          /\ pc' = [pc EXCEPT ![0] = "ws2"]
          /\ modbus' = "open"
          /\ UNCHANGED <<decp, rawSP, hooks, configVars, runVars, storeVars,
                         cmdVars, ctx, pv, sp, callVars, waitVars>>
       \/ ExecuteFails(0)

\* lines 231-234: raw_sp = round(value * (10 ** raw_decp));
\* execute(WRITE_MULTIPLE_REGISTERS, ADDRESS_SP, [raw_sp]); _register_command
write_setpoint_write ==
    /\ pc[0] = "ws2"
    /\ \/ LET raw_sp == ToRaw(arg, raw_decp[0]) IN
          /\ rawSP' = raw_sp
          /\ bus' = [bus EXCEPT ![0].addr = ADDRESS_SP, ![0].val = raw_sp]
          /\ modbus' = "open"
          /\ command_data' = RegisterCommand(command_data, "Set setpoint", arg)
          /\ cmd_saved' = SavedCommands(command_data')
          /\ pc' = [pc EXCEPT ![0] = "ret"]
          /\ UNCHANGED <<decp, hooks, configVars, runVars, storeVars, ctx,
                         raw_decp, pv, sp, callVars, waitVars>>
       \/ ExecuteFails(0)

\* --------------------------------------------------------- the stores
\* the quotient rounded up instead of down
SaveEveryCeil == (save_interval + log_interval - 1) \div log_interval

\* math.floor(self.save_interval / self.log_interval)
SaveEvery == save_interval \div log_interval

\* the processes between the loop's sleep and register_state's append
Sampling == {q \in Procs : pc[q] \in {"rpv1", "rpv2", "rs1", "rs2", "reg"}
                           /\ ctx[q] = "sample"}

\* the store has room for one more sampling iteration
HasRoom == Len(temp_data) + Cardinality(Sampling) < MaxRows

\* lines 307-310: add_data; nrows = len(data);
\* if nrows % floor(save_interval / log_interval) == 0 and save_log: save_csv()
register_state(p) ==
    /\ pc[p] = "reg"
    /\ temp_data' = Append(temp_data, [pv |-> pv[p], sp |-> sp[p]])
    /\ LET nrows == Len(temp_data') IN
       IF SaveEvery = 0
       THEN /\ Raise(p, "ZeroDivisionError")
            /\ last_append' = [nrows |-> nrows, saved |-> FALSE, by |-> p]
            /\ temp_saved' = temp_saved
            /\ samples' = samples
       ELSE /\ LET save == (nrows % SaveEvery = 0) /\ save_log IN
               /\ last_append' = [nrows |-> nrows, saved |-> save, by |-> p]
               /\ temp_saved' = IF save THEN nrows ELSE temp_saved
            /\ pc' = [pc EXCEPT ![p] = IF p = 0 THEN "w_tail" ELSE "run"]
            /\ ctx' = [ctx EXCEPT ![p] = "none"]
            /\ raw_decp' = [raw_decp EXCEPT ![p] = -1]
            /\ pv' = [pv EXCEPT ![p] = -1]
            /\ sp' = [sp EXCEPT ![p] = -1]
            /\ bus' = [bus EXCEPT ![p] = NoBus]
            /\ samples' = IF p = 0 THEN samples + 1 ELSE samples
            /\ err' = err
    /\ late' = IF p # 0 /\ ~running THEN [late EXCEPT ![p] = @ + 1] ELSE late
    /\ UNCHANGED <<deviceVars, configVars, running, thread, cmdVars, op, arg,
                   ret, w, was_logging, elapsed, last_n>>

\* ------------------------------------------------ the Polling Controller
\* a loop that never looks at the flag
KeepsPollingAlways == TRUE

\* line 315: while self.running
KeepsPolling == running

\* lines 315-316: while self.running: time.sleep(self.log_interval)
run(t) ==
    /\ pc[t] = "run"
    /\ IF KeepsPolling
       THEN /\ HasRoom
            /\ pc' = [pc EXCEPT ![t] = "rpv1"]
            /\ ctx' = [ctx EXCEPT ![t] = "sample"]
       ELSE /\ pc' = [pc EXCEPT ![t] = "none"]
            /\ ctx' = ctx
    /\ UNCHANGED <<deviceVars, configVars, runVars, storeVars, cmdVars,
                   raw_decp, pv, sp, bus, callVars, waitVars>>

\* a thread that is not alive, of those this run may create
Free == {t \in Threads : t <= env.threads /\ pc[t] = "none"}
NewThread == CHOOSE t \in Free : \A u \in Free : t <= u

\* Runnable.start(): running becomes True, a new thread executes run()
start(t, procs, errs) ==
    /\ running' = TRUE
    /\ thread' = t
    /\ late' = [u \in Threads |-> 0]
    /\ pc' = [procs EXCEPT ![t] = "run"]
    /\ err' = [errs EXCEPT ![t] = None]

\* Runnable.stop(): running becomes False; the caller then joins the thread
stop == running' = FALSE /\ late' = late

\* the thread Runnable.stop() waits for has ended
Joined == thread = 0 \/ pc[thread] = "none"

\* lines 319-321
start_temp_logging ==
    /\ pc[0] = "idle"
    /\ Free # {}
    /\ start(NewThread, pc, err)
    /\ UNCHANGED <<deviceVars, configVars, storeVars, cmdVars, ctx, raw_decp,
                   pv, sp, bus, op, arg, ret, waitVars>>

\* lines 323-325
stop_temp_logging ==
    /\ pc[0] = "idle"
    /\ stop
    /\ pc' = [pc EXCEPT ![0] = "stop_join"]
    /\ op' = "stop_temp_logging"
    /\ UNCHANGED <<deviceVars, configVars, thread, storeVars, cmdVars, ctx,
                   raw_decp, pv, sp, bus, arg, ret, err, waitVars>>

stop_temp_logging_join ==
    /\ pc[0] = "stop_join"
    /\ Joined
    /\ pc' = [pc EXCEPT ![0] = "ret"]
    /\ UNCHANGED <<deviceVars, configVars, runVars, storeVars, cmdVars, ctx,
                   raw_decp, pv, sp, bus, callVars, waitVars>>

\* ------------------------------------------------- connect and disconnect
\* lines 138-151; called by __init__ (line 94) and by the caller.  A failed
\* constructor leaves no session ("failed").
connect ==
    /\ pc[0] \in {"new", "idle"}
    /\ hooks < MaxHooks
    /\ op' = IF pc[0] = "new" THEN op ELSE "connect"
    /\ \/ /\ modbus' = "open"
          /\ hooks' = hooks + 1
          /\ pc' = [pc EXCEPT ![0] = "ret"]
          /\ err' = err
       \/ /\ modbus' \in (IF modbus = None THEN {None, "closed"} ELSE {modbus})
          /\ hooks' = hooks
          /\ pc' = [pc EXCEPT ![0] = IF pc[0] = "new" THEN "failed" ELSE "ret"]
          /\ err' = [err EXCEPT ![0] = "GefranPidError"]
    /\ UNCHANGED <<decp, rawSP, configVars, runVars, storeVars, cmdVars, ctx,
                   raw_decp, pv, sp, bus, arg, ret, waitVars>>

\* a disconnect that does not look at self.running
PollingRunsUnchecked == FALSE

\* line 158: if self.running
PollingRuns == running

\* lines 158-159: if self.running: self.stop_temp_logging()
disconnect ==
    /\ pc[0] = "idle"
    /\ op' = "disconnect"
    /\ was_logging' = running
    /\ IF PollingRuns
       THEN /\ stop
            /\ pc' = [pc EXCEPT ![0] = "disc_join"]
       ELSE /\ running' = running /\ late' = late
            /\ pc' = [pc EXCEPT ![0] = "disc_save"]
    /\ UNCHANGED <<deviceVars, configVars, thread, storeVars, cmdVars, ctx,
                   raw_decp, pv, sp, bus, arg, ret, err, w, elapsed, last_n,
                   samples>>

disconnect_join ==
    /\ pc[0] = "disc_join"
    /\ Joined
    /\ pc' = [pc EXCEPT ![0] = "disc_save"]
    /\ UNCHANGED <<deviceVars, configVars, runVars, storeVars, cmdVars, ctx,
                   raw_decp, pv, sp, bus, callVars, waitVars>>

\* a disconnect that leaves the temperature store unsaved
SavedRowsNever == temp_saved

\* lines 160 and 287-288: the rows on disk after
\* if self.save_log: if len(self.temp_data.data != 0): temp_data.save_csv()
SavedRows ==
    IF save_log /\ Len(temp_data) # 0 THEN Len(temp_data) ELSE temp_saved

\* lines 160-161 and 286-289: if self.save_log: self.save_csv_files()
disconnect_save ==
    /\ pc[0] = "disc_save"
    /\ temp_saved' = SavedRows
    /\ cmd_saved' = SavedCommands(command_data)
    /\ pc' = [pc EXCEPT ![0] = "disc_close"]
    /\ UNCHANGED <<deviceVars, configVars, runVars, temp_data, last_append,
                   command_data, ctx, raw_decp, pv, sp, bus, callVars,
                   waitVars>>

\* lines 162-169: self.modbus.close(), GefranPidError when it raises
disconnect_close ==
    /\ pc[0] = "disc_close"
    /\ pc' = [pc EXCEPT ![0] = "ret"]
    /\ \/ /\ modbus' = "closed"
          /\ err' = err
       \/ /\ modbus' = modbus
          /\ err' = [err EXCEPT ![0] = "GefranPidError"]
    /\ UNCHANGED <<decp, rawSP, hooks, configVars, runVars, storeVars,
                   cmdVars, ctx, raw_decp, pv, sp, bus, op, arg, ret,
                   waitVars>>

\* ------------------------------------------------------ the caller's calls
\* lines 189-196: the caller reads the setpoint
call_read_setpoint ==
    /\ pc[0] = "idle"
    /\ pc' = [pc EXCEPT ![0] = "rs1"]
    /\ ctx' = [ctx EXCEPT ![0] = "call"]
    /\ op' = "read_setpoint"
    /\ UNCHANGED <<deviceVars, configVars, runVars, storeVars, cmdVars,
                   raw_decp, pv, sp, bus, arg, ret, err, waitVars>>

\* lines 171-187: the caller reads the process value
call_read_process_value ==
    /\ pc[0] = "idle"
    /\ pc' = [pc EXCEPT ![0] = "rpv1"]
    /\ ctx' = [ctx EXCEPT ![0] = "call"]
    /\ op' = "read_process_value"
    /\ UNCHANGED <<deviceVars, configVars, runVars, storeVars, cmdVars,
                   raw_decp, pv, sp, bus, arg, ret, err, waitVars>>

\* lines 198-207: the caller writes the setpoint
call_write_setpoint ==
    /\ pc[0] = "idle"
    /\ Len(command_data) < MaxCmds
    /\ \E value \in env.setpoints : arg' = value
    /\ pc' = [pc EXCEPT ![0] = "ws1"]
    /\ op' = "write_setpoint"
    /\ UNCHANGED <<deviceVars, configVars, runVars, storeVars, cmdVars, ctx,
                   raw_decp, pv, sp, bus, ret, err, waitVars>>

\* the caller's operation has returned or raised; the caller goes on
Return ==
    /\ pc[0] = "ret"
    /\ pc' = [pc EXCEPT ![0] = "idle"]
    /\ ctx' = [ctx EXCEPT ![0] = "none"]
    /\ raw_decp' = [raw_decp EXCEPT ![0] = -1]
    /\ pv' = [pv EXCEPT ![0] = -1]
    /\ sp' = [sp EXCEPT ![0] = -1]
    /\ bus' = [bus EXCEPT ![0] = NoBus]
    /\ op' = "none"
    /\ arg' = -1
    /\ ret' = RetNone
    /\ err' = [err EXCEPT ![0] = None]
    /\ w' = NoWait
    /\ was_logging' = FALSE
    /\ elapsed' = 0
    /\ last_n' = <<>>
    /\ samples' = 0
    /\ UNCHANGED <<deviceVars, configVars, runVars, storeVars, cmdVars>>

\* the controller's decimal-point setting is changed on the device
device_decp_change ==
    /\ pc[0] \notin {"new", "failed"}
    /\ \E d \in 0 .. MaxDecp : d # decp /\ decp' = d
    /\ UNCHANGED <<rawSP, modbus, hooks, configVars, runVars, storeVars,
                   cmdVars, procVars, callVars, waitVars>>

\* ------------------------------------------------ the Stabilization Monitor
\* any() where the code has all()
is_stable_any(temps, tolerance, setpoint) ==
    \E i \in 1 .. Len(temps) : Abs(temps[i] - setpoint) < tolerance

\* a tolerance interval that includes its ends
is_stable_closed(temps, tolerance, setpoint) ==
    \A i \in 1 .. Len(temps) : Abs(temps[i] - setpoint) <= tolerance

\* lines 402-403: all(abs(temp - setpoint) < tolerance for temp in temps)
is_stable(temps, tolerance, setpoint) ==
    \A i \in 1 .. Len(temps) : Abs(temps[i] - setpoint) < tolerance

\* a custom_stable_func of the caller's: the latest temperature has reached
\* the setpoint
custom_stable_func(temps, setpoint) ==
    Len(temps) > 0 /\ temps[Len(temps)] >= setpoint

\* TemporalData.tail(n, column): the last n values of the column, or all of
\* them when there are fewer
tail(data, n) ==
    LET first == IF Len(data) > n THEN Len(data) - n + 1 ELSE 1
    IN  [i \in 1 .. (Len(data) - first + 1) |-> data[first + i - 1].pv]

\* line 364: (current_time - start_time).seconds
seconds_passed == (elapsed \div TicksPerSecond) % SecondsPerDay

\* the calls the caller makes: n, tolerance, timeout (-1 is None),
\* custom_stable_func given or not, custom_stable_func_kargs given or not
WaitArgs ==
    { [n |-> n, tolerance |-> Phys(15, 1), timeout |-> t, custom |-> FALSE,
       kargs |-> FALSE] : n \in 1 .. MaxN, t \in {-1, 10} }
    \cup
    { [n |-> 1, tolerance |-> Phys(15, 1), timeout |-> -1, custom |-> TRUE,
       kargs |-> k] : k \in BOOLEAN }

\* a wait that takes the polling for stopped whatever self.running says
WasLoggingIgnored == FALSE

\* line 359: was_logging = self.running
WasLogging == running

\* lines 357-361
wait_until_stable ==
    /\ pc[0] = "idle"
    /\ Len(command_data) + 2 <= MaxCmds
    /\ \E a \in env.waits : w' = a
    /\ op' = "wait_until_stable"
    /\ command_data' = RegisterCommand(command_data,
                           "Waiting for temperature to stabilize", -1)
    /\ cmd_saved' = SavedCommands(command_data')
    /\ elapsed' = 0
    /\ was_logging' = WasLogging
    /\ IF WasLogging
       THEN /\ stop
            /\ pc' = [pc EXCEPT ![0] = "w_join"]
       ELSE /\ running' = running /\ late' = late
            /\ pc' = [pc EXCEPT ![0] = "w_check"]
    /\ UNCHANGED <<deviceVars, configVars, thread, storeVars, ctx, raw_decp,
                   pv, sp, bus, arg, ret, err, last_n, samples>>

\* how long the join of line 361 may take: nothing, or the sleep in flight
JoinDelays == {0, log_interval * TicksPerSecond}

wait_until_stable_join ==
    /\ pc[0] = "w_join"
    /\ Joined
    /\ \E d \in JoinDelays : elapsed' = elapsed + d
    /\ pc' = [pc EXCEPT ![0] = "w_check"]
    /\ UNCHANGED <<deviceVars, configVars, runVars, storeVars, cmdVars, ctx,
                   raw_decp, pv, sp, bus, callVars, w, was_logging, last_n,
                   samples>>

\* a wait that goes on without restarting the polling
RestoreNothing(next) ==
    /\ pc' = [pc EXCEPT ![0] = next]
    /\ UNCHANGED <<runVars, err>>

\* lines 368-369 and 395-396: if was_logging: self.start_temp_logging()
Restore(next) ==
    IF was_logging
    THEN /\ Free # {}
         /\ start(NewThread, [pc EXCEPT ![0] = next], err)
    ELSE /\ pc' = [pc EXCEPT ![0] = next]
         /\ UNCHANGED <<runVars, err>>

\* a timeout that fires as soon as the timeout's seconds have passed
TimedOutAtTimeout == w.timeout # -1 /\ seconds_passed >= w.timeout

\* lines 366-367: if timeout is not None: if seconds_passed > timeout
TimedOut == w.timeout # -1 /\ seconds_passed > w.timeout

\* lines 363-369 and 373: the timeout check, then time.sleep(log_interval)
wait_until_stable_check ==
    /\ pc[0] = "w_check"
    /\ IF TimedOut
       THEN /\ Restore("w_timed_out")
            /\ UNCHANGED <<ctx, elapsed>>
       ELSE /\ HasRoom
            /\ \E o \in 0 .. MaxOvershoot :
                  elapsed' = elapsed + log_interval * TicksPerSecond + o
            /\ pc' = [pc EXCEPT ![0] = "rpv1"]
            /\ ctx' = [ctx EXCEPT ![0] = "sample"]
            /\ UNCHANGED <<runVars, err>>
    /\ UNCHANGED <<deviceVars, configVars, storeVars, cmdVars, raw_decp, pv,
                   sp, bus, op, arg, ret, w, was_logging, last_n, samples>>

\* lines 370-371
wait_until_stable_timed_out ==
    /\ pc[0] = "w_timed_out"
    /\ command_data' = RegisterCommand(command_data,
           "Temperature has not stabilized, wait has timed out", -1)
    /\ cmd_saved' = SavedCommands(command_data')
    /\ ret' = RetBool(FALSE)
    /\ pc' = [pc EXCEPT ![0] = "ret"]
    /\ UNCHANGED <<deviceVars, configVars, runVars, storeVars, ctx, raw_decp,
                   pv, sp, bus, op, arg, err, waitVars>>

\* the length test off by one
TooFewOffByOne(rows, n) == Len(rows) < n - 1

\* line 378: if len(last_n_times) < n
TooFew(rows, n) == Len(rows) < n

\* lines 375-379: the last n rows; fewer than n: continue
wait_until_stable_tail ==
    /\ pc[0] = "w_tail"
    /\ last_n' = tail(temp_data, w.n)
    /\ IF TooFew(last_n', w.n)
       THEN /\ pc' = [pc EXCEPT ![0] = "w_check"]
            /\ ctx' = ctx
       ELSE /\ pc' = [pc EXCEPT ![0] = "rs1"]
            /\ ctx' = [ctx EXCEPT ![0] = "eval"]
    /\ UNCHANGED <<deviceVars, configVars, runVars, storeVars, cmdVars,
                   raw_decp, pv, sp, bus, callVars, w, was_logging, elapsed,
                   samples>>

\* the predicate of lines 381-393 on the rows and the setpoint just read
Stable ==
    IF w.custom
    THEN custom_stable_func(last_n, sp[0])
    ELSE is_stable(last_n, w.tolerance, sp[0])

\* lines 381-400: evaluate the predicate; stable: restore the polling
wait_until_stable_decide ==
    /\ pc[0] = "w_stable"
    /\ IF w.custom /\ ~w.kargs
       THEN /\ Raise(0, "TypeError")
            /\ UNCHANGED runVars
       ELSE /\ IF Stable
               THEN Restore("w_stabilized")
               ELSE /\ pc' = [pc EXCEPT ![0] = "w_check"]
                    /\ UNCHANGED <<runVars, err>>
            /\ ctx' = [ctx EXCEPT ![0] = "none"]
            /\ UNCHANGED <<raw_decp, pv, sp, bus>>
    /\ UNCHANGED <<deviceVars, configVars, storeVars, cmdVars, op, arg, ret,
                   waitVars>>

\* lines 397-398
wait_until_stable_stabilized ==
    /\ pc[0] = "w_stabilized"
    /\ command_data' = RegisterCommand(command_data,
                           "Temperature has stabilized", -1)
    /\ cmd_saved' = SavedCommands(command_data')
    /\ ret' = RetBool(TRUE)
    /\ pc' = [pc EXCEPT ![0] = "ret"]
    /\ UNCHANGED <<deviceVars, configVars, runVars, storeVars, ctx, raw_decp,
                   pv, sp, bus, op, arg, err, waitVars>>

\* ------------------------------------------------------ the specification
Next ==
    \/ connect
    \/ disconnect
    \/ disconnect_join
    \/ disconnect_save
    \/ disconnect_close
    \/ call_read_setpoint
    \/ call_read_process_value
    \/ call_write_setpoint
    \/ write_setpoint_decp
    \/ write_setpoint_write
    \/ start_temp_logging
    \/ stop_temp_logging
    \/ stop_temp_logging_join
    \/ wait_until_stable
    \/ wait_until_stable_join
    \/ wait_until_stable_check
    \/ wait_until_stable_timed_out
    \/ wait_until_stable_tail
    \/ wait_until_stable_decide
    \/ wait_until_stable_stabilized
    \/ Return
    \/ \E p \in Procs :
          \/ read_process_value_decp(p)
          \/ read_process_value_pv(p)
          \/ read_setpoint_decp(p)
          \/ read_setpoint_sp(p)
          \/ register_state(p)
    \/ \E t \in Threads : run(t)

\* the session with its polling thread: the device keeps its scale, the
\* process temperature moves around the setpoint of 200.0
Init ==
    /\ Session
    /\ env = [temps |-> {Phys(1990, 1), Phys(2020, 1)},
              setpoints |-> {Phys(2000, 1)},
              waits |-> WaitArgs,
              threads |-> MaxPolling]
    /\ probe = NoProbe

Spec == Init /\ [][Next]_vars

\* ------------------------------------ the accessors on a device whose
\* decimal-point setting changes between and during the calls
NextScale ==
    \/ connect
    \/ call_read_setpoint
    \/ call_read_process_value
    \/ call_write_setpoint
    \/ read_process_value_decp(0)
    \/ read_process_value_pv(0)
    \/ read_setpoint_decp(0)
    \/ read_setpoint_sp(0)
    \/ write_setpoint_decp
    \/ write_setpoint_write
    \/ Return
    \/ device_decp_change

InitScale ==
    /\ Session
    /\ env = [temps |-> {Phys(1990, 1)},
              setpoints |-> {Phys(1855, 1), Phys(2000, 1)},
              waits |-> {},
              threads |-> 0]
    /\ probe = NoProbe

SpecScale == InitScale /\ [][NextScale]_vars

\* ------------------------------------ the Register Codec on its own:
\* a raw register value is converted as read_setpoint converts it, and the
\* result is converted back as write_setpoint converts it, at one scale
CodecRaws ==
    (0 .. 30) \cup {99, 100, 101, 185, 186, 999, 1000, 1855, 1995, 2000,
                    9999, 32767, 32768, 65534, 65535}

otherVars == <<deviceVars, log_interval, save_interval, save_log, env,
               runVars, storeVars, cmdVars, procVars, callVars, waitVars>>

\* line 227: raw_sp / (10 ** raw_decp)
convert_to_physical ==
    /\ probe.kind = "codec" /\ probe.stage = 0
    /\ probe' = [probe EXCEPT !.value = ToPhysical(probe.raw, probe.d),
                              !.stage = 1]
    /\ UNCHANGED otherVars

\* line 231: round(value * (10 ** raw_decp))
convert_to_raw ==
    /\ probe.kind = "codec" /\ probe.stage = 1
    /\ probe' = [probe EXCEPT !.back = ToRaw(probe.value, probe.d),
                              !.stage = 2]
    /\ UNCHANGED otherVars

NextCodec == convert_to_physical \/ convert_to_raw

InitCodec ==
    /\ Session
    /\ env = [temps |-> {}, setpoints |-> {}, waits |-> {}, threads |-> 0]
    /\ \E raw \in CodecRaws :
          probe = [kind |-> "codec", raw |-> raw, d |-> decp, value |-> -1,
                   back |-> -1, stage |-> 0]

SpecCodec == InitCodec /\ [][NextCodec]_vars

\* ------------------------------------ the default predicate on its own
StableTemps ==
    {Phys(1985, 1), Phys(1990, 1), Phys(1999, 1), Phys(2008, 1),
     Phys(2015, 1), Phys(2020, 1)}

StableRows == UNION {[1 .. k -> StableTemps] : k \in 0 .. MaxTemps}

\* lines 381-387: stable = self.is_stable(last_n_temperatures, tolerance,
\* current_setpoint)
evaluate_is_stable ==
    /\ probe.kind = "stable" /\ probe.stage = 0
    /\ probe' = [probe EXCEPT
                    !.result = is_stable(probe.temps, probe.tolerance,
                                         probe.setpoint),
                    !.stage = 1]
    /\ UNCHANGED otherVars

NextStable == evaluate_is_stable

InitStable ==
    /\ Session
    /\ env = [temps |-> {}, setpoints |-> {}, waits |-> {}, threads |-> 0]
    /\ \E temps \in StableRows :
          probe = [kind |-> "stable", temps |-> temps,
                   tolerance |-> Phys(15, 1), setpoint |-> Phys(2000, 1),
                   result |-> FALSE, stage |-> 0]

SpecStable == InitStable /\ [][NextStable]_vars

\* ------------------------------------ a wait that lasts longer than a day:
\* a sample every half day, no polling thread
DayConfigs == {<<SecondsPerDay \div 2, SecondsPerDay, TRUE>>}

DayWaits ==
    { [n |-> 1, tolerance |-> Phys(15, 1), timeout |-> t, custom |-> FALSE,
       kargs |-> FALSE] : t \in {10, SecondsPerDay} }

NextDay ==
    \/ connect
    \/ wait_until_stable
    \/ wait_until_stable_check
    \/ wait_until_stable_timed_out
    \/ wait_until_stable_tail
    \/ wait_until_stable_decide
    \/ wait_until_stable_stabilized
    \/ read_process_value_decp(0)
    \/ read_process_value_pv(0)
    \/ read_setpoint_decp(0)
    \/ read_setpoint_sp(0)
    \/ register_state(0)
    \/ Return

InitDay ==
    /\ SessionWith(DayConfigs)
    /\ env = [temps |-> {Phys(1990, 1), Phys(2020, 1)},
              setpoints |-> {},
              waits |-> DayWaits,
              threads |-> 0]
    /\ probe = NoProbe

SpecDay == InitDay /\ [][NextDay]_vars

\* ------------------------------------ the polling started, stopped and
\* started again, start_temp_logging() being callable while a thread polls
ThreadsConfigs == {<<5, 10, TRUE>>}

ThreadsWaits ==
    {[n |-> 1, tolerance |-> Phys(15, 1), timeout |-> -1, custom |-> FALSE,
      kargs |-> FALSE]}

NextThreads ==
    \/ connect
    \/ disconnect
    \/ disconnect_join
    \/ disconnect_save
    \/ disconnect_close
    \/ start_temp_logging
    \/ stop_temp_logging
    \/ stop_temp_logging_join
    \/ wait_until_stable
    \/ wait_until_stable_join
    \/ wait_until_stable_check
    \/ wait_until_stable_tail
    \/ wait_until_stable_decide
    \/ wait_until_stable_stabilized
    \/ Return
    \/ \E p \in Procs :
          \/ read_process_value_decp(p)
          \/ read_process_value_pv(p)
          \/ read_setpoint_decp(p)
          \/ read_setpoint_sp(p)
          \/ register_state(p)
    \/ \E t \in Threads : run(t)

InitThreads ==
    /\ SessionWith(ThreadsConfigs)
    /\ env = [temps |-> {Phys(1990, 1)},
              setpoints |-> {},
              waits |-> ThreadsWaits,
              threads |-> MaxThreads]
    /\ probe = NoProbe

SpecThreads == InitThreads /\ [][NextThreads]_vars

\* ================================================================ claims
Waiting == op = "wait_until_stable"
ReturnedTrue ==
    Waiting /\ (pc[0] = "w_stabilized" \/ (pc[0] = "ret" /\ ret = RetBool(TRUE)))
ReturnedFalse ==
    Waiting /\ (pc[0] = "w_timed_out" \/ (pc[0] = "ret" /\ ret = RetBool(FALSE)))

\* the processes between the scale read and the value transfer of one
\* read_process_value, read_setpoint or write_setpoint
MidOperation == {p \in Procs : pc[p] \in {"rpv2", "rs2", "ws2"}}

\* C1: read_process_value, read_setpoint and write_setpoint hold the
\* session's lock for their full duration: no register operation of one
\* caller is executed between the scale read and the value read/write of
\* another caller, so at most one process is ever between the two.
C1_ExclusiveTransport == Cardinality(MidOperation) <= 1

\* the process-value column's last n values, as the store holds them now
LastRows(n) ==
    LET k == IF n < Len(temp_data) THEN n ELSE Len(temp_data)
    IN  [i \in 1 .. k |-> temp_data[Len(temp_data) - k + i].pv]

\* every temperature lies strictly between setpoint - tol and setpoint + tol
Within(temps, tol, setpoint) ==
    \A i \in DOMAIN temps :
        setpoint - tol < temps[i] /\ temps[i] < setpoint + tol

\* the rows of this iteration satisfy the predicate the caller asked for,
\* against the setpoint read in this iteration
Satisfies ==
    IF w.custom
    THEN last_n[Len(last_n)] >= sp[0]
    ELSE Within(last_n, w.tolerance, sp[0])

Evaluating ==
    Waiting /\ (ctx[0] = "eval" \/ pc[0] = "w_stable" \/ ReturnedTrue)

\* C3: in an iteration where the temperature store holds fewer than n rows
\* the predicate is not evaluated and the wait does not return True.
C3_NoEvaluationOnShortBuffer == Evaluating => Len(temp_data) >= w.n

\* C3's case: the wait has sampled, the store still holds fewer than n rows,
\* and the loop has gone on to its next timeout check
C3_Witness ==
    Waiting /\ pc[0] = "w_check" /\ samples >= 1 /\ Len(temp_data) < w.n

\* the whole number of log intervals in a save interval
IntervalsPerSave ==
    CHOOSE k \in 0 .. save_interval :
        k * log_interval <= save_interval /\ (k + 1) * log_interval > save_interval

\* C4 as claimed: every append that brings the row count to recordCount >= 1
\* invokes the save checkpoint exactly when
\* recordCount % floor(saveInterval / logInterval) == 0 (stated where the
\* modulus is defined).
C4_CheckpointByCountAlone ==
    (last_append.nrows >= 1 /\ IntervalsPerSave > 0) =>
        (last_append.saved <=> last_append.nrows % IntervalsPerSave = 0)

\* C4, amended: the append invokes the save checkpoint exactly when save_log
\* is on, floor(saveInterval / logInterval) is at least 1 and divides the row
\* count read after the append; with saveInterval < logInterval the row is
\* appended, the modulus raises ZeroDivisionError and nothing is saved.
C4_CheckpointWhenLogging ==
    last_append.nrows >= 1 =>
        /\ last_append.saved <=>
              /\ save_log
              /\ IntervalsPerSave > 0
              /\ \E m \in 1 .. last_append.nrows :
                    last_append.nrows = m * IntervalsPerSave
        /\ last_append.saved => temp_saved >= last_append.nrows
        /\ last_append.nrows <= Len(temp_data)

\* C4's case: a second row has been appended and saved, with two log
\* intervals to the save interval
C4_Witness ==
    /\ last_append.nrows = 2 /\ last_append.saved
    /\ save_interval = 10 /\ log_interval = 5 /\ temp_saved = 2

\* C5 as claimed: with timeout=10 and logInterval=5 a wait that returns False
\* has taken exactly two samples.
C5_TwoSamplesThenTimeout ==
    (ReturnedFalse /\ w.timeout = 10 /\ log_interval = 5) => samples = 2

\* C5, amended: with timeout=10 and logInterval=5 the timeout check ends the
\* wait exactly when at least 11 seconds have passed since its start: when
\* no polling ran at entry never before two samples are taken, always once
\* three are, and after two samples that took 10 seconds to the tick a third
\* sample is taken.
C5_TimeoutOnceElevenSecondsPassed ==
    [][(Waiting /\ w.timeout = 10 /\ log_interval = 5
          /\ pc[0] = "w_check" /\ pc'[0] # "w_check") =>
        /\ pc'[0] = "w_timed_out" <=> elapsed >= 11 * TicksPerSecond
        /\ pc'[0] # "w_timed_out" => pc'[0] = "rpv1" /\ ctx'[0] = "sample"
        /\ (samples < 2 /\ ~was_logging) => pc'[0] # "w_timed_out"
        /\ samples >= 3 => pc'[0] = "w_timed_out"
        /\ (samples = 2 /\ elapsed = 10 * TicksPerSecond) =>
              pc'[0] = "rpv1"]_vars

\* C5's case: no polling ran at entry, stability was never reached, and the
\* wait returned False after a third sample
C5_Witness ==
    /\ Waiting /\ pc[0] = "ret" /\ ret = RetBool(FALSE)
    /\ w.timeout = 10 /\ log_interval = 5 /\ ~was_logging /\ samples = 3

\* C6: disconnect called while the polling runs stops the polling task
\* before it closes the transport: once the close begins, the thread the
\* controller started has ended, so it executes no register operation and
\* appends no sample.
C6_PollingStoppedBeforeClose ==
    (op = "disconnect" /\ pc[0] \in {"disc_save", "disc_close", "ret"}) =>
        /\ ~running
        /\ thread # 0 => pc[thread] = "none"

\* C6's case: disconnect found the polling running with samples logged, and
\* is about to close the transport
C6_Witness ==
    /\ op = "disconnect" /\ pc[0] = "disc_close"
    /\ was_logging /\ thread # 0 /\ Len(temp_data) > 0

\* the raw value is the integer nearest to value * 10^d
Nearest(raw, value, d) ==
    2 * Abs(raw * Pow10(MaxDecp) - value * Pow10(d)) <= Pow10(MaxDecp)

\* C7: read_process_value, read_setpoint and write_setpoint each read the
\* scale d from the device's decimal-point register and convert with that d
\* in the same call, whatever d earlier calls saw: a read returns
\* raw / 10^d, a write writes round(value * 10^d); with d = 1 the value
\* 185.5 is written as 1855 and the raw 1855 is read as 185.5.
C7_ConvertsWithScaleOfSameCall ==
    [][/\ (pc[0] \in {"rpv1", "rs1", "ws1"}
            /\ pc'[0] \in {"rpv2", "rs2", "ws2"}) => raw_decp'[0] = decp
       /\ (pc[0] \in {"rpv2", "rs2"} /\ ctx[0] = "call"
            /\ pc'[0] = "ret" /\ err'[0] = None) =>
              /\ ret'[1] = "float"
              /\ ret'[2] * Pow10(raw_decp[0])
                    = bus'[0].val * Pow10(MaxDecp)
              /\ pc[0] = "rs2" => bus'[0].val = rawSP
              /\ (bus'[0].val = 1855 /\ raw_decp[0] = 1) =>
                    ret' = RetFloat(Phys(1855, 1))
       /\ (pc[0] = "ws2" /\ pc'[0] = "ret" /\ err'[0] = None) =>
              /\ Nearest(rawSP', arg, raw_decp[0])
              /\ (arg = Phys(1855, 1) /\ raw_decp[0] = 1) => rawSP' = 1855
      ]_vars

\* C7's case: 185.5 was written while d was 0 (raw 186), the device's d
\* then changed to 1, and a later read_setpoint returned 18.6
C7_Witness ==
    /\ op = "read_setpoint" /\ pc[0] = "ret" /\ err[0] = None
    /\ bus[0] = [decp |-> 1, addr |-> ADDRESS_SP, val |-> 186]
    /\ ret = RetFloat(Phys(186, 1))

C9_DefaultPredicateStrict ==
    (probe.kind = "stable" /\ probe.stage = 1) =>
        /\ probe.result <=>
              Within(probe.temps, probe.tolerance, probe.setpoint)
        /\ probe.temps = <<Phys(1990, 1), Phys(2008, 1), Phys(1999, 1)>>
              => probe.result
        /\ probe.temps = <<Phys(1990, 1), Phys(2020, 1), Phys(1999, 1)>>
              => ~probe.result
        /\ (\E i \in DOMAIN probe.temps :
               Abs(probe.temps[i] - probe.setpoint) = probe.tolerance)
              => ~probe.result

\* C9's case: the predicate has been evaluated on [199.0, 202.0, 199.9]
C9_Witness ==
    /\ probe.kind = "stable" /\ probe.stage = 1
    /\ probe.temps = <<Phys(1990, 1), Phys(2020, 1), Phys(1999, 1)>>
    /\ ~probe.result

\* C10: a transport-level failure reaches the caller only as a domain error
\* (GefranPidError): no raw transport exception leaves connect, disconnect,
\* read_process_value, read_setpoint or write_setpoint.
C10_DomainErrorsOnly == err[0] # "TransportError"

\* C11: a register read that fails during a sample of the polling loop or of
\* wait_until_stable ends that operation with the error: the step appends no
\* row, the polling thread is dead and the wait has left its loop without a
\* result, and neither samples again.
C11_FailedSampleEndsOperation ==
    [][\A p \in Procs :
         /\ (ctx[p] = "sample" /\ err[p] = None
               /\ err'[p] = "TransportError") =>
                 /\ temp_data' = temp_data
                 /\ pc'[p] = IF p = 0 THEN "ret" ELSE "none"
                 /\ ctx'[p] = "none"
         /\ (p # 0 /\ err'[p] = "TransportError") => pc'[p] = "none"
         /\ (p = 0 /\ op' = "wait_until_stable"
               /\ err'[p] = "TransportError") =>
                 pc'[p] = "ret" /\ ret' = RetNone]_vars

\* C11's case: the polling thread has logged a row, a read of its next
\* sample has failed, and the thread is dead with the flag still set
C11_Witness ==
    \E t \in Threads :
        /\ err[t] = "TransportError" /\ pc[t] = "none"
        /\ running /\ thread = t /\ Len(temp_data) = 1 /\ last_append.by = t

\* wait_until_stable has restarted the polling it found running
Restored ==
    /\ was_logging
    /\ \/ pc[0] \in {"w_timed_out", "w_stabilized"}
       \/ pc[0] = "ret" /\ err[0] = None

\* C12 as claimed: from the first manual sample of wait_until_stable until
\* it returns, the Polling Controller is Stopped.
C12_StoppedUntilReturn == (Waiting /\ samples >= 1) => ~running

\* C12, amended: from the end of the join in wait_until_stable until it
\* restarts the polling it found running (just before its terminal command
\* record), or until it returns or raises when there is nothing to restart,
\* the Polling Controller is Stopped and the thread the controller started
\* has ended, so that thread takes no sample while the wait samples.
C12_StoppedUntilRestore ==
    (Waiting /\ pc[0] # "w_join" /\ ~Restored) =>
        /\ ~running
        /\ thread # 0 => pc[thread] = "none"

\* C12's case: the polling ran and had logged a row when the wait was
\* called, and the wait has taken a sample of its own
C12_Witness ==
    /\ Waiting /\ was_logging /\ pc[0] = "w_check" /\ samples = 1
    /\ thread # 0 /\ Len(temp_data) = 2

\* the text of the command record appended last
LastCommand == command_data[Len(command_data)].text

\* C13: when wait_until_stable returns True or False the polling flag is
\* what it was at the call (Running if it was Running, Stopped if it was
\* Stopped), and it is already so when the terminal command record is still
\* to be appended.
C13_PollingRestoredBeforeRecord ==
    Waiting =>
        /\ pc[0] \in {"w_timed_out", "w_stabilized"} =>
              /\ running = was_logging
              /\ was_logging => thread # 0
              /\ LastCommand = "Waiting for temperature to stabilize"
        /\ (pc[0] = "ret" /\ err[0] = None) =>
              /\ running = was_logging
              /\ ret \in {RetBool(TRUE), RetBool(FALSE)}

\* C13's case: the polling ran at the call, the wait has timed out, the
\* polling runs again and the terminal record is not yet appended
C13_Witness ==
    /\ Waiting /\ pc[0] = "w_timed_out" /\ was_logging /\ running
    /\ thread # 0 /\ pc[thread] # "none" /\ samples >= 1

\* C14 as claimed: when disconnect comes to close the transport, both stores
\* are flushed.
C14_FlushedBeforeClose ==
    (op = "disconnect" /\ pc[0] = "disc_close") =>
        cmd_saved = Len(command_data) /\ temp_saved = Len(temp_data)

\* C14, amended: disconnect stops the polling if it runs and waits for its
\* thread, then, when save_log is on, saves the temperature store if it has
\* rows and the command store, and only then closes the transport; a close
\* that fails raises GefranPidError with what the flush saved left as it is.
\* With save_log off nothing is flushed.
C14_StopFlushThenClose ==
    [][/\ (pc[0] = "idle" /\ op' = "disconnect") =>
              IF running
              THEN ~running' /\ pc'[0] = "disc_join"
              ELSE pc'[0] = "disc_save"
       /\ (pc[0] = "disc_join" /\ pc'[0] # "disc_join") =>
              /\ pc'[0] = "disc_save"
              /\ thread # 0 => pc[thread] = "none"
              /\ modbus' = modbus
       /\ (pc[0] = "disc_save" /\ pc'[0] # "disc_save") =>
              /\ pc'[0] = "disc_close"
              /\ modbus' = modbus
              /\ IF save_log
                 THEN /\ cmd_saved' = Len(command_data)
                      /\ Len(temp_data) # 0 => temp_saved' = Len(temp_data)
                 ELSE cmd_saved' = cmd_saved /\ temp_saved' = temp_saved
       /\ (pc[0] = "disc_close" /\ pc'[0] # "disc_close") =>
              /\ pc'[0] = "ret"
              /\ cmd_saved' = cmd_saved /\ temp_saved' = temp_saved
              /\ IF err'[0] = "GefranPidError"
                 THEN modbus' = modbus
                 ELSE modbus' = "closed" /\ err'[0] = None
       /\ (modbus = "open" /\ modbus' # "open") => pc[0] = "disc_close"
      ]_vars

\* C14's case: the polling ran and had logged one row not yet saved, the
\* disconnect has flushed both stores, and the close has failed
C14_Witness ==
    /\ op = "disconnect" /\ pc[0] = "ret" /\ err[0] = "GefranPidError"
    /\ was_logging /\ save_log /\ modbus = "open"
    /\ Len(temp_data) = 1 /\ temp_saved = 1
    /\ Len(command_data) >= 1 /\ cmd_saved = Len(command_data)

\* C15: the disconnect-at-exit hook is registered by the first successful
\* connect only: a session never has more than one hook registered.
C15_AtMostOneHook == hooks <= 1

\* C16: with a timeout set, whatever its value, a timeout check made when
\* more than timeout seconds have passed since the start of the wait ends
\* the wait (which then returns False): the timeout bounds the wait.
C16_TimeoutBoundsTheWait ==
    [][(Waiting /\ pc[0] = "w_check" /\ pc'[0] # "w_check"
          /\ w.timeout # -1 /\ elapsed \div TicksPerSecond > w.timeout) =>
        pc'[0] = "w_timed_out"]_vars

\* C17: a wait_until_stable call appends "Waiting for temperature to
\* stabilize" first and nothing more while it runs; when it returns it has
\* appended, right after that record, exactly one terminal record:
\* "Temperature has stabilized" for True, "Temperature has not stabilized,
\* wait has timed out" for False.
C17_WaitingThenOneTerminalRecord ==
    Waiting =>
        /\ Len(command_data) >= 1
        /\ (pc[0] # "ret" \/ err[0] # None) =>
              LastCommand = "Waiting for temperature to stabilize"
        /\ (pc[0] = "ret" /\ err[0] = None) =>
              /\ Len(command_data) >= 2
              /\ command_data[Len(command_data) - 1].text
                    = "Waiting for temperature to stabilize"
              /\ ret = RetBool(TRUE) =>
                    LastCommand = "Temperature has stabilized"
              /\ ret = RetBool(FALSE) =>
                    LastCommand
                      = "Temperature has not stabilized, wait has timed out"
              /\ ret \in {RetBool(TRUE), RetBool(FALSE)}

\* C17's case: a wait that sampled twice has returned False, its two
\* records the last two of the command store
C17_Witness ==
    /\ Waiting /\ pc[0] = "ret" /\ ret = RetBool(FALSE) /\ samples >= 2
    /\ Len(command_data) = 2
    /\ LastCommand = "Temperature has not stabilized, wait has timed out"

\* C18: the polling loop looks at the flag once per iteration, before it
\* sleeps and samples: a thread appends at most one row with the flag
\* cleared (the iteration in flight when stop() cleared it), after that row
\* it is at its flag check or has ended, at a flag check with the flag
\* cleared it ends, and an ended thread samples again only as the thread of
\* a new start().
C18_OneSampleInFlightThenEnds ==
    [][\A t \in Threads :
         /\ late'[t] <= 1
         /\ late'[t] = 1 => ~running' /\ pc'[t] \in {"run", "none"}
         /\ (pc[t] = "run" /\ pc'[t] # "run") =>
               IF running THEN pc'[t] = "rpv1" ELSE pc'[t] = "none"
         /\ (pc[t] = "none" /\ pc'[t] # "none") =>
               running' /\ thread' = t /\ pc'[t] = "run"]_vars

\* C18's case: stop() cleared the flag while the thread was in an
\* iteration, the thread appended that one row and has ended
C18_Witness ==
    \E t \in Threads :
        late[t] = 1 /\ pc[t] = "none" /\ ~running /\ last_append.by = t

\* the threads that execute Pid.run
Alive == {t \in Threads : pc[t] # "none"}

\* C19: whatever the calls of start, stop, wait_until_stable and
\* disconnect, at most one background polling thread is alive.
C19_OnePollingTask == Cardinality(Alive) <= 1

\* C20: a wait_until_stable that ends with an exception (a sample of its
\* loop failed) leaves the polling flag cleared, also when the polling ran
\* at the call, returns nothing and has appended no terminal command record.
C20_FailedWaitLeavesPollingStopped ==
    (Waiting /\ pc[0] = "ret" /\ err[0] # None) =>
        /\ ~running
        /\ ret = RetNone
        /\ LastCommand = "Waiting for temperature to stabilize"

\* C20's case: the polling ran at the call, the wait took one sample, a
\* register read of its second sample failed
C20_Witness ==
    /\ Waiting /\ pc[0] = "ret" /\ err[0] = "TransportError"
    /\ was_logging /\ ~running /\ samples = 1

====
